---- MODULE Spec2Model ----
(***************************************************************************)
(* Model of src/api/proxy.js: the HTTP handler that proxies one MongoDB    *)
(* operation per request to a caller-supplied connection string.           *)
(*                                                                         *)
(* One handler invocation is a sequence of steps (the numbered sections of *)
(* the source); the MongoDB driver and the JSON response object are the    *)
(* environment.  A driver call either returns or throws, chosen            *)
(* nondeterministically; a call that never settles is a behaviour in which *)
(* the corresponding *Settles step is never taken.                         *)
(*                                                                         *)
(* JavaScript values are records tagged with their type.  A string is a    *)
(* sequence of tokens, each token standing for a run of characters.        *)
(***************************************************************************)
EXTENDS Naturals, Sequences, FiniteSets, TLC

(* ------------------------------------------------------------------ *)
(* Bounds                                                             *)
(* ------------------------------------------------------------------ *)
\* Longest path (in segments) of the generated connection strings.
MaxSegs == 2
\* Handler invocations in flight at once in the concurrent specification.
NumReq == 2

(* ------------------------------------------------------------------ *)
(* JavaScript values                                                  *)
(* ------------------------------------------------------------------ *)
Undefined == [t |-> "undefined"]
Null == [t |-> "null"]
Str(s) == [t |-> "string", v |-> s]
Num(n) == [t |-> "number", v |-> n]
Bool(b) == [t |-> "boolean", v |-> b]
\* A plain object {} and an array of n opaque elements.
Obj == [t |-> "object"]
Arr(n) == [t |-> "array", v |-> n]

\* ToBoolean: undefined, null, "", 0 and false are falsy.
Truthy(x) ==
    CASE x.t = "undefined" -> FALSE
      [] x.t = "null" -> FALSE
      [] x.t = "string" -> x.v # <<>>
      [] x.t = "number" -> x.v # 0
      [] x.t = "boolean" -> x.v
      [] OTHER -> TRUE

\* a || b
Or(a, b) == IF Truthy(a) THEN a ELSE b

IsArray(x) == x.t = "array"

\* JSON.stringify of an object literal: a property whose value is undefined
\* is left out.
Json(o) == [k \in {kk \in DOMAIN o : o[kk] # Undefined} |-> o[k]]

(* ------------------------------------------------------------------ *)
(* Connection strings: the regular expression and the URL parser      *)
(* ------------------------------------------------------------------ *)
\* Smallest index j >= i with s[j] in set; Len(s) + 1 when there is none.
IndexFrom(s, i, set) ==
    LET hits == {j \in i..Len(s) : s[j] \in set}
    IN IF hits = {} THEN Len(s) + 1
       ELSE CHOOSE j \in hits : \A k \in hits : j <= k

\* /^mongodb(?:\+srv)?:\/\/.+$/.test(s): the scheme, "://", then at least one
\* character, none of them a line terminator.
MONGO_URI_REGEX(s) ==
    /\ Len(s) >= 3
    /\ s[1] \in {"mongodb", "mongodb+srv"}
    /\ s[2] = "://"
    /\ \A i \in 3..Len(s) : s[i] # "\n"

Ports == {"27017"}

\* s split at every sep.
RECURSIVE Split(_, _)
Split(s, sep) ==
    LET i == IndexFrom(s, 1, {sep})
    IN IF i > Len(s) THEN <<s>>
       ELSE <<SubSeq(s, 1, i - 1)>> \o Split(SubSeq(s, i + 1, Len(s)), sep)

\* new URL(s) for a string that begins scheme "://": the authority runs to the
\* first "/" or "?"; a ":" in it starts the port, which must be digits (so a
\* list of host:port pairs does not parse); the pathname runs to the "?".
URL(s) ==
    LET authEnd == IndexFrom(s, 3, {"/", "?"})
        auth == SubSeq(s, 3, authEnd - 1)
        colon == IndexFrom(auth, 1, {":"})
        port == SubSeq(auth, colon + 1, Len(auth))
        pathEnd == IndexFrom(s, authEnd, {"?"})
        query == SubSeq(s, pathEnd + 1, Len(s))
        pairs == IF query = <<>> THEN <<>> ELSE Split(query, "&")
    IN [ok |-> port = <<>> \/ (Len(port) = 1 /\ port[1] \in Ports),
        pathname |-> SubSeq(s, authEnd, pathEnd - 1),
        searchParams |->
            [i \in 1..Len(pairs) |->
                LET eq == IndexFrom(pairs[i], 1, {"="})
                IN <<SubSeq(pairs[i], 1, eq - 1),
                     SubSeq(pairs[i], eq + 1, Len(pairs[i]))>>]]

\* url.searchParams.has(name), url.searchParams.get(name)
SearchHas(u, name) == \E i \in 1..Len(u.searchParams) : u.searchParams[i][1] = <<name>>
SearchGet(u, name) ==
    u.searchParams[IndexFrom([i \in 1..Len(u.searchParams) |-> u.searchParams[i][1]],
                             1, {<<name>>})][2]

\* str.substring(1)
Substring1(s) == IF s = <<>> THEN <<>> ELSE Tail(s)

(* ------------------------------------------------------------------ *)
(* Requests the handler is invoked with                               *)
(* ------------------------------------------------------------------ *)
Methods == {"OPTIONS", "POST", "GET"}

\* The values of process.env.NODE_ENV.
Envs == {Undefined, Str(<<"production">>), Str(<<"development">>)}

SegNames == <<"mydb", "sub", "x", "y", "z">>

\* "/" alone, or "/mydb", "/mydb/sub", ...
RECURSIVE PathOf(_)
PathOf(n) ==
    IF n = 0 THEN <<"/">>
    ELSE IF n = 1 THEN <<"/", SegNames[1]>>
    ELSE PathOf(n - 1) \o <<"/", SegNames[n]>>

Queries ==
    { <<>>,
      <<"?", "authSource", "=", "admin">>,
      <<"?", "authSource", "=">>,
      <<"?", "w", "=", "1", "&", "authSource", "=", "admin">> }

Uris ==
    { <<"mongodb", "://", "h">> \o PathOf(n) \o q : n \in 0..MaxSegs, q \in Queries }
    \cup
    { <<"mongodb+srv", "://", "h", "/", "?", "authSource", "=", "admin">>,
      <<"mongodb", "://", "h", "?", "authSource", "=", "admin">>,
      <<"mongodb", "://", "h", ":", "27017">>,
      <<"mongodb", "://", "h", ":", "27017", ",", "h2", ":", "27017", "/", "mydb">>,
      <<"mongodb", "://">>,
      <<"mongodb", "://", "h", "/", "mydb", "\n">>,
      <<"http", "://", "h", "/", "mydb">> }

TargetUris == {Undefined, Str(<<>>), Num(42)} \cup {Str(u) : u \in Uris}

SupportedOperations ==
    {"find", "findOne", "insertOne", "insertMany", "updateOne", "updateMany",
     "deleteOne", "deleteMany", "countDocuments", "aggregate"}

Operations == {Undefined} \cup {Str(<<o>>) : o \in SupportedOperations \cup {"bogus", "Find"}}

\* The payload properties of a body.
PayloadFields == {"query", "document", "documents", "update", "options"}

AllPayloads ==
    [query : {Undefined, Null, Obj, Arr(0)},
     document : {Undefined, Null, Obj},
     documents : {Undefined, Obj, Arr(0)},
     update : {Undefined, Obj},
     options : {Undefined, Obj}]

\* The payload properties the case of an operation reads.
Reads(operation) ==
    IF operation = Undefined THEN {}
    ELSE LET op == operation.v[1]
         IN CASE op \in {"find", "findOne", "countDocuments", "aggregate",
                         "deleteOne", "deleteMany"} -> {"query", "options"}
              [] op = "insertOne" -> {"document", "options"}
              [] op = "insertMany" -> {"documents", "options"}
              [] op \in {"updateOne", "updateMany"} -> {"query", "update", "options"}
              [] OTHER -> {}

\* The payloads a request for an operation is sent with: every value of the
\* properties the operation reads, the others left out; and every property
\* present at once.
PayloadsOf(operation) ==
    {p \in AllPayloads : \A f \in DOMAIN p : f \notin Reads(operation) => p[f] = Undefined}
    \cup {[query |-> Obj, document |-> Obj, documents |-> Arr(0), update |-> Obj,
           options |-> Obj]}

\* The body of a request: absent, a JSON string, or a JSON object.  A property
\* the object does not carry reads as undefined.
ObjectBodies(uris, ops) ==
    UNION {
        { [t |-> "object", targetUri |-> b.targetUri, operation |-> op,
           collectionName |-> b.collectionName, databaseName |-> b.databaseName]
          @@ p :
            b \in [targetUri : uris,
                   collectionName : {Undefined, Str(<<"coll">>)},
                   databaseName : {Undefined, Str(<<>>), Str(<<"explicit">>)}],
            p \in PayloadsOf(op) } : op \in ops }

Bodies == {Undefined, Str(<<"text">>)} \cup ObjectBodies(TargetUris, Operations)

\* The requests of the concurrent specification: a method that is refused, a
\* missing body, and a find that passes every check.
ConcMethods == {"POST", "GET"}

ConcEnvs == {Undefined}

ConcBodies ==
    {Undefined} \cup
    {b \in ObjectBodies({Str(<<"mongodb", "://", "h", "/", "mydb">>)}, {Str(<<"find">>)}) :
        /\ b.collectionName # Undefined
        /\ b.databaseName = Undefined
        /\ \A f \in PayloadFields : b[f] = Undefined}

\* const { name } = body
Field(body, name) ==
    IF body.t = "object" /\ name \in DOMAIN body THEN body[name] ELSE Undefined

(* ------------------------------------------------------------------ *)
(* State                                                              *)
(* ------------------------------------------------------------------ *)
VARIABLES
    NODE_ENV,  \* process.env.NODE_ENV, fixed for the life of the process
    pc,        \* pc[r]: the step invocation r of handler is at
    req,       \* req[r]: the request as far as the handler has read it
    loc,       \* loc[r]: the local variables of the invocation
    res,       \* res[r]: the response object
    drv,       \* drv[r]: what the MongoDB driver was asked to do
    log        \* log[r]: the externally visible events, in order

vars == <<NODE_ENV, pc, req, loc, res, drv, log>>

NotRead == [t |-> "unread"]

InitLoc ==
    [targetUri |-> Undefined, operation |-> Undefined, collectionName |-> Undefined,
     databaseName |-> Undefined, query |-> Undefined, document |-> Undefined,
     documents |-> Undefined, update |-> Undefined, options |-> Undefined,
     dbName |-> Undefined, client |-> Null, result |-> Undefined, error |-> Undefined]

InitRes == [headers |-> <<>>, statusCode |-> 0, body |-> <<>>, sent |-> 0]

InitDrv == [clients |-> 0, connects |-> 0, conn |-> "none", ops |-> <<>>, closes |-> 0]

InitOf(R, envs) ==
    /\ NODE_ENV \in envs
    /\ pc = [r \in R |-> "idle"]
    /\ req = [r \in R |-> [method |-> "", body |-> NotRead]]
    /\ loc = [r \in R |-> InitLoc]
    /\ res = [r \in R |-> InitRes]
    /\ drv = [r \in R |-> InitDrv]
    /\ log = [r \in R |-> <<>>]

(* ------------------------------------------------------------------ *)
(* The response object                                                *)
(* ------------------------------------------------------------------ *)
\* res.setHeader(name, value)
setHeader(rs, name, value) ==
    [rs EXCEPT !.headers =
        [k \in DOMAIN rs.headers \cup {name} |-> IF k = name THEN value ELSE rs.headers[k]]]

\* res.status(code).json(obj)
json(rs, code, obj) ==
    [rs EXCEPT !.statusCode = code, !.body = Json(obj), !.sent = @ + 1]

\* res.status(code).end()
end(rs, code) ==
    [rs EXCEPT !.statusCode = code, !.body = <<>>, !.sent = @ + 1]

Error(msg) == [error |-> Str(msg)]

\* `return res.status(code).json(obj)` outside the try statement: the handler
\* returns.
ReturnJson(r, code, obj) ==
    /\ res' = [res EXCEPT ![r] = json(@, code, obj)]
    /\ log' = [log EXCEPT ![r] = Append(@, "respond")]
    /\ pc' = [pc EXCEPT ![r] = "returned"]

\* Mutant: the return leaves the handler at once, as if the try statement
\* had no finally block.
ReturnSkippingFinally(r, code, obj) == ReturnJson(r, code, obj)

\* `return res.status(code).json(obj)` inside the try statement: the finally
\* block runs before the handler returns.
TryReturnJson(r, code, obj) ==
    /\ res' = [res EXCEPT ![r] = json(@, code, obj)]
    /\ log' = [log EXCEPT ![r] = Append(@, "respond")]
    /\ pc' = [pc EXCEPT ![r] = "finally"]

(* ------------------------------------------------------------------ *)
(* handler, step by step                                              *)
(* ------------------------------------------------------------------ *)
\* The host invokes handler(req, res).
Invoke(r, methods) ==
    /\ pc[r] = "idle"
    /\ \E m \in methods : req' = [req EXCEPT ![r].method = m]
    /\ pc' = [pc EXCEPT ![r] = "cors"]
    /\ UNCHANGED <<NODE_ENV, loc, res, drv, log>>

\* 1. Allow CORS
SetCorsHeaders(r) ==
    /\ pc[r] = "cors"
    /\ res' = [res EXCEPT ![r] =
          setHeader(setHeader(setHeader(setHeader(@,
              "Access-Control-Allow-Credentials", Bool(TRUE)),
              "Access-Control-Allow-Origin", Str(<<"*">>)),
              "Access-Control-Allow-Methods", Str(<<"POST, OPTIONS">>)),
              "Access-Control-Allow-Headers", Str(<<"Content-Type">>))]
    /\ pc' = [pc EXCEPT ![r] = "options"]
    /\ UNCHANGED <<NODE_ENV, req, loc, drv, log>>

\* Mutant: the preflight request is not handled.
HandleOptionsFallThrough(r) ==
    /\ pc[r] = "options"
    /\ pc' = [pc EXCEPT ![r] = "method"]
    /\ UNCHANGED <<NODE_ENV, req, loc, res, drv, log>>

\* Handle OPTIONS preflight request for CORS
HandleOptions(r) ==
    /\ pc[r] = "options"
    /\ IF req[r].method = "OPTIONS"
       THEN /\ res' = [res EXCEPT ![r] = end(@, 204)]
            /\ log' = [log EXCEPT ![r] = Append(@, "respond")]
            /\ pc' = [pc EXCEPT ![r] = "returned"]
       ELSE /\ pc' = [pc EXCEPT ![r] = "method"]
            /\ UNCHANGED <<res, log>>
    /\ UNCHANGED <<NODE_ENV, req, loc, drv>>

\* 2. Check Method
CheckMethod(r) ==
    /\ pc[r] = "method"
    /\ IF req[r].method # "POST"
       THEN /\ res' = [res EXCEPT ![r] =
                  json(setHeader(@, "Allow", <<"POST", "OPTIONS">>), 405,
                       Error(<<"Method ", req[r].method, " Not Allowed">>))]
            /\ log' = [log EXCEPT ![r] = Append(@, "respond")]
            /\ pc' = [pc EXCEPT ![r] = "returned"]
       ELSE /\ pc' = [pc EXCEPT ![r] = "parse"]
            /\ UNCHANGED <<res, log>>
    /\ UNCHANGED <<NODE_ENV, req, loc, drv>>

\* 3. Parse Request Body: req.body is read here for the first time; the body
\* the request carries is one of `bodies`.
ParseBody(r, bodies) ==
    /\ pc[r] = "parse"
    /\ \E body \in bodies :
        /\ req' = [req EXCEPT ![r].body = body]
        /\ IF ~Truthy(body)
           THEN /\ ReturnJson(r, 400, Error(<<"Missing request body">>))
                /\ UNCHANGED loc
           ELSE /\ loc' = [loc EXCEPT ![r] =
                      [@ EXCEPT !.targetUri = Field(body, "targetUri"),
                                !.operation = Field(body, "operation"),
                                !.collectionName = Field(body, "collectionName"),
                                !.databaseName = Field(body, "databaseName"),
                                !.query = Field(body, "query"),
                                !.document = Field(body, "document"),
                                !.documents = Field(body, "documents"),
                                !.update = Field(body, "update"),
                                !.options = Field(body, "options")]]
                /\ pc' = [pc EXCEPT ![r] = "validate"]
                /\ UNCHANGED <<res, log>>
    /\ UNCHANGED <<NODE_ENV, drv>>

\* 4. Basic Validation
MissingRequired(l) ==
    ~Truthy(l.targetUri) \/ ~Truthy(l.operation) \/ ~Truthy(l.collectionName)

\* Mutant: only the type of targetUri is checked.
InvalidTargetUriTypeOnly(l) == l.targetUri.t # "string"

InvalidTargetUri(l) ==
    l.targetUri.t # "string" \/ ~MONGO_URI_REGEX(l.targetUri.v)

BasicValidation(r) ==
    /\ pc[r] = "validate"
    /\ IF MissingRequired(loc[r])
       THEN ReturnJson(r, 400,
                Error(<<"Missing required fields in body: targetUri, operation, and collectionName">>))
       ELSE IF InvalidTargetUri(loc[r])
       THEN ReturnJson(r, 400,
                Error(<<"Invalid targetUri format. Must be a valid MongoDB connection string.">>))
       ELSE /\ pc' = [pc EXCEPT ![r] = "dbname"]
            /\ UNCHANGED <<res, log>>
    /\ UNCHANGED <<NODE_ENV, req, loc, drv>>

\* Mutant: authSource is preferred to the path.
DetermineDbNameAuthSourceFirst(databaseName, targetUri) ==
    IF Truthy(databaseName) THEN [threw |-> FALSE, dbName |-> databaseName]
    ELSE LET url == URL(targetUri.v)
         IN IF ~url.ok THEN [threw |-> TRUE, dbName |-> databaseName]
            ELSE IF SearchHas(url, "authSource")
            THEN [threw |-> FALSE, dbName |-> Str(SearchGet(url, "authSource"))]
            ELSE [threw |-> FALSE, dbName |-> Or(Str(Substring1(url.pathname)), Null)]

\* 5. Determine Database Name: the value of dbName after lines 50-58, and
\* whether new URL(targetUri) threw.
DetermineDbName(databaseName, targetUri) ==
    IF Truthy(databaseName) THEN [threw |-> FALSE, dbName |-> databaseName]
    ELSE LET url == URL(targetUri.v)
             fromPath == Or(Str(Substring1(url.pathname)), Null)
         IN IF ~url.ok THEN [threw |-> TRUE, dbName |-> databaseName]
            ELSE IF ~Truthy(fromPath) /\ SearchHas(url, "authSource")
            THEN [threw |-> FALSE, dbName |-> Str(SearchGet(url, "authSource"))]
            ELSE [threw |-> FALSE, dbName |-> fromPath]

ResolveDatabase(r) ==
    /\ pc[r] = "dbname"
    /\ LET d == DetermineDbName(loc[r].databaseName, loc[r].targetUri)
       IN IF d.threw
          THEN /\ ReturnJson(r, 400,
                      Error(<<"Could not parse targetUri to determine database name.">>))
               /\ UNCHANGED loc
          ELSE IF ~Truthy(d.dbName)
          THEN /\ ReturnJson(r, 400,
                      Error(<<"Could not determine database name from targetUri. Please provide databaseName in the request body.">>))
               /\ loc' = [loc EXCEPT ![r].dbName = d.dbName]
          ELSE /\ loc' = [loc EXCEPT ![r].dbName = d.dbName]
               /\ pc' = [pc EXCEPT ![r] = "create"]
               /\ UNCHANGED <<res, log>>
    /\ UNCHANGED <<NODE_ENV, req, drv>>

\* What the driver throws.
MongoParseError == [message |-> Str(<<"Invalid connection string">>)]
MongoNetworkError == [message |-> Str(<<"connect ECONNREFUSED">>)]
MongoServerError == [message |-> Str(<<"command failed">>)]

\* 6. client = new MongoClient(targetUri): the constructor parses the
\* connection string and may throw before client is assigned.
CreateClient(r) ==
    /\ pc[r] = "create"
    /\ \/ /\ loc' = [loc EXCEPT ![r].client = Obj]
          /\ drv' = [drv EXCEPT ![r].clients = @ + 1]
          /\ log' = [log EXCEPT ![r] = Append(@, "client")]
          /\ pc' = [pc EXCEPT ![r] = "connect"]
       \/ /\ loc' = [loc EXCEPT ![r].error = MongoParseError]
          /\ pc' = [pc EXCEPT ![r] = "catch"]
          /\ UNCHANGED <<drv, log>>
    /\ UNCHANGED <<NODE_ENV, req, res>>

\* await client.connect(): the call
Connect(r) ==
    /\ pc[r] = "connect"
    /\ drv' = [drv EXCEPT ![r].connects = @ + 1]
    /\ log' = [log EXCEPT ![r] = Append(@, "connect")]
    /\ pc' = [pc EXCEPT ![r] = "awaitConnect"]
    /\ UNCHANGED <<NODE_ENV, req, loc, res>>

\* Mutant: the rejection of connect() is ignored.
ConnectSettlesIgnoringError(r) ==
    /\ pc[r] = "awaitConnect"
    /\ \/ drv' = [drv EXCEPT ![r].conn = "open"]
       \/ UNCHANGED drv
    /\ pc' = [pc EXCEPT ![r] = "dispatch"]
    /\ UNCHANGED <<NODE_ENV, req, loc, res, log>>

\* await client.connect(): the promise settles
ConnectSettles(r) ==
    /\ pc[r] = "awaitConnect"
    /\ \/ /\ drv' = [drv EXCEPT ![r].conn = "open"]
          /\ pc' = [pc EXCEPT ![r] = "dispatch"]
          /\ UNCHANGED loc
       \/ /\ loc' = [loc EXCEPT ![r].error = MongoNetworkError]
          /\ pc' = [pc EXCEPT ![r] = "catch"]
          /\ UNCHANGED drv
    /\ UNCHANGED <<NODE_ENV, req, res, log>>

\* 7. The switch statement: for each operation, the message of its
\* required-field check when the check fails ("" when it passes) or the
\* driver call it makes.
Empty == Obj

\* Mutant: insertOne refuses a falsy document.
InsertOneCheckFalsy(l) == ~Truthy(l.document)

InsertOneCheck(l) == l.document = Undefined

InsertManyCheck(l) == ~Truthy(l.documents) \/ ~IsArray(l.documents)

\* Mutant: updateOne and updateMany check query alone.
UpdateCheckQueryOnly(l) == l.query = Undefined

UpdateCheck(l) == l.query = Undefined \/ l.update = Undefined

DeleteCheck(l) == l.query = Undefined

AggregateCheck(l) == ~Truthy(l.query) \/ ~IsArray(l.query)

Missing(l) ==
    LET op == l.operation.v[1]
    IN CASE op = "insertOne" /\ InsertOneCheck(l) ->
              <<"Missing field: document for insertOne">>
         [] op = "insertMany" /\ InsertManyCheck(l) ->
              <<"Missing or invalid field: documents array for insertMany">>
         [] op = "updateOne" /\ UpdateCheck(l) ->
              <<"Missing fields: query and update for updateOne">>
         [] op = "updateMany" /\ UpdateCheck(l) ->
              <<"Missing fields: query and update for updateMany">>
         [] op = "deleteOne" /\ DeleteCheck(l) ->
              <<"Missing field: query for deleteOne">>
         [] op = "deleteMany" /\ DeleteCheck(l) ->
              <<"Missing field: query for deleteMany">>
         [] op = "aggregate" /\ AggregateCheck(l) ->
              <<"Missing or invalid field: query (pipeline array) for aggregate">>
         [] op \notin SupportedOperations ->
              <<"Unsupported operation: ", op>>
         [] OTHER -> <<>>

\* The arguments of the driver call of each case.
DriverCall(l) ==
    LET op == l.operation.v[1]
        opts == Or(l.options, Empty)
    IN CASE op \in {"find", "findOne", "countDocuments"} ->
              [op |-> op, args |-> <<Or(l.query, Empty), opts>>]
         [] op = "insertOne" -> [op |-> op, args |-> <<l.document, opts>>]
         [] op = "insertMany" -> [op |-> op, args |-> <<l.documents, opts>>]
         [] op \in {"updateOne", "updateMany"} ->
              [op |-> op, args |-> <<l.query, l.update, opts>>]
         [] op \in {"deleteOne", "deleteMany", "aggregate"} ->
              [op |-> op, args |-> <<l.query, opts>>]

\* Mutant: the 400 of a failed check is sent without returning, and the
\* handler goes on to the driver call.
DispatchWithoutReturn(r) ==
    /\ pc[r] = "dispatch"
    /\ IF Missing(loc[r]) # <<>>
       THEN /\ res' = [res EXCEPT ![r] = json(@, 400, Error(Missing(loc[r])))]
            /\ log' = [log EXCEPT ![r] = Append(@, "respond")]
            /\ UNCHANGED drv
       ELSE /\ drv' = [drv EXCEPT ![r].ops = Append(@, DriverCall(loc[r]))]
            /\ log' = [log EXCEPT ![r] = Append(@, "operation")]
            /\ UNCHANGED res
    /\ pc' = [pc EXCEPT ![r] = "awaitOperation"]
    /\ UNCHANGED <<NODE_ENV, req, loc>>

Dispatch(r) ==
    /\ pc[r] = "dispatch"
    /\ IF Missing(loc[r]) # <<>>
       THEN /\ TryReturnJson(r, 400, Error(Missing(loc[r])))
            /\ UNCHANGED drv
       ELSE /\ drv' = [drv EXCEPT ![r].ops = Append(@, DriverCall(loc[r]))]
            /\ log' = [log EXCEPT ![r] = Append(@, "operation")]
            /\ pc' = [pc EXCEPT ![r] = "awaitOperation"]
            /\ UNCHANGED res
    /\ UNCHANGED <<NODE_ENV, req, loc>>

\* What a driver call resolves to: find and aggregate are followed by
\* toArray(), countDocuments gives a number, the others a result object.
ResultOf(op) ==
    CASE op \in {"find", "aggregate"} -> Arr(0)
      [] op = "countDocuments" -> Num(0)
      [] OTHER -> Obj

\* result = await collection.<operation>(...): the promise settles
OperationSettles(r) ==
    /\ pc[r] = "awaitOperation"
    /\ \/ /\ loc' = [loc EXCEPT ![r].result = ResultOf(loc[r].operation.v[1])]
          /\ pc' = [pc EXCEPT ![r] = "success"]
       \/ /\ loc' = [loc EXCEPT ![r].error = MongoServerError]
          /\ pc' = [pc EXCEPT ![r] = "catch"]
    /\ UNCHANGED <<NODE_ENV, req, res, drv, log>>

\* 8. Send Success Response
SendSuccess(r) ==
    /\ pc[r] = "success"
    /\ TryReturnJson(r, 200, [success |-> Bool(TRUE), data |-> loc[r].result])
    /\ UNCHANGED <<NODE_ENV, req, loc, drv>>

\* Mutant: the message of the error is sent whatever the environment.
ErrorBodyWithDetails(env, error) ==
    [success |-> Bool(FALSE),
     error |-> Str(<<"Internal Server Error processing MongoDB request">>),
     details |-> error.message]

\* 9. Send Error Response
ErrorBody(env, error) ==
    [success |-> Bool(FALSE),
     error |-> Str(<<"Internal Server Error processing MongoDB request">>),
     details |-> IF env # Str(<<"production">>) THEN error.message ELSE Undefined]

\* Mutant: the catch block swallows the error without answering.
CatchErrorSilently(r) ==
    /\ pc[r] = "catch"
    /\ pc' = [pc EXCEPT ![r] = "finally"]
    /\ UNCHANGED <<NODE_ENV, req, loc, res, drv, log>>

CatchError(r) ==
    /\ pc[r] = "catch"
    /\ TryReturnJson(r, 500, ErrorBody(NODE_ENV, loc[r].error))
    /\ UNCHANGED <<NODE_ENV, req, loc, drv>>

\* 10. finally: if (client) await client.close(): the call
Finally(r) ==
    /\ pc[r] = "finally"
    /\ IF Truthy(loc[r].client)
       THEN /\ drv' = [drv EXCEPT ![r].closes = @ + 1]
            /\ log' = [log EXCEPT ![r] = Append(@, "close")]
            /\ pc' = [pc EXCEPT ![r] = "awaitClose"]
       ELSE /\ pc' = [pc EXCEPT ![r] = "returned"]
            /\ UNCHANGED <<drv, log>>
    /\ UNCHANGED <<NODE_ENV, req, loc, res>>

\* await client.close(): the promise settles; when it rejects, the promise
\* handler returned rejects.
CloseSettles(r) ==
    /\ pc[r] = "awaitClose"
    /\ \/ /\ drv' = [drv EXCEPT ![r].conn = IF @ = "open" THEN "closed" ELSE @]
          /\ log' = [log EXCEPT ![r] = Append(@, "closed")]
          /\ pc' = [pc EXCEPT ![r] = "returned"]
       \/ /\ pc' = [pc EXCEPT ![r] = "rejected"]
          /\ UNCHANGED <<drv, log>>
    /\ UNCHANGED <<NODE_ENV, req, loc, res>>

(* ------------------------------------------------------------------ *)
(* Specifications                                                     *)
(* ------------------------------------------------------------------ *)
\* The steps of invocation r after the host invoked it.
Handler(r, bodies) ==
    \/ SetCorsHeaders(r)
    \/ HandleOptions(r)
    \/ CheckMethod(r)
    \/ ParseBody(r, bodies)
    \/ BasicValidation(r)
    \/ ResolveDatabase(r)
    \/ CreateClient(r)
    \/ Connect(r)
    \/ ConnectSettles(r)
    \/ Dispatch(r)
    \/ OperationSettles(r)
    \/ SendSuccess(r)
    \/ CatchError(r)
    \/ Finally(r)
    \/ CloseSettles(r)

\* One invocation, every request.
Init == InitOf({1}, Envs)

Next ==
    \E r \in {1} :
        \/ Invoke(r, Methods)
        \/ SetCorsHeaders(r)
        \/ HandleOptions(r)
        \/ CheckMethod(r)
        \/ ParseBody(r, Bodies)
        \/ BasicValidation(r)
        \/ ResolveDatabase(r)
        \/ CreateClient(r)
        \/ Connect(r)
        \/ ConnectSettles(r)
        \/ Dispatch(r)
        \/ OperationSettles(r)
        \/ SendSuccess(r)
        \/ CatchError(r)
        \/ Finally(r)
        \/ CloseSettles(r)

Spec == Init /\ [][Next]_vars

\* NumReq invocations in flight at once.  The host runs the synchronous code
\* of the invocations and every driver call settles: as long as some
\* invocation can take a step, one of them eventually does.
ConcInit == InitOf(1..NumReq, ConcEnvs)

ConcNext ==
    \E r \in 1..NumReq :
        \/ Invoke(r, ConcMethods)
        \/ SetCorsHeaders(r)
        \/ HandleOptions(r)
        \/ CheckMethod(r)
        \/ ParseBody(r, ConcBodies)
        \/ BasicValidation(r)
        \/ ResolveDatabase(r)
        \/ CreateClient(r)
        \/ Connect(r)
        \/ ConnectSettles(r)
        \/ Dispatch(r)
        \/ OperationSettles(r)
        \/ SendSuccess(r)
        \/ CatchError(r)
        \/ Finally(r)
        \/ CloseSettles(r)

FairSpec ==
    /\ ConcInit
    /\ [][ConcNext]_vars
    /\ WF_vars(\E r \in 1..NumReq : Handler(r, ConcBodies))

(* ------------------------------------------------------------------ *)
(* Vocabulary of the properties                                       *)
(* ------------------------------------------------------------------ *)
\* The invocation is over: handler returned, or the promise it returned
\* rejected.
Done(r) == pc[r] \in {"returned", "rejected"}

BodyRead(r) == req[r].body # NotRead

Absent(x) == x = Undefined \/ x = Str(<<>>)

\* The path of a parsed connection string after its leading "/", whole, and
\* its first segment alone.
WholePath(url) == Substring1(url.pathname)
FirstSegment(url) == Split(Substring1(url.pathname), "/")[1]

\* The database name the priority order databaseName, path, authSource
\* gives, with fromPath the part of the path that names the database; null
\* when none resolves.
ResolvedFrom(databaseName, url, fromPath) ==
    IF ~Absent(databaseName) THEN databaseName
    ELSE IF fromPath # <<>> THEN Str(fromPath)
    ELSE IF SearchHas(url, "authSource") /\ SearchGet(url, "authSource") # <<>>
    THEN Str(SearchGet(url, "authSource"))
    ELSE Null

\* The body fails steps 3 and 4: it is missing, a required field is missing
\* or empty, or targetUri is not a string of the MongoDB shape.
FailsBasic(b) ==
    \/ ~Truthy(b)
    \/ \E f \in {"targetUri", "operation", "collectionName"} : Absent(Field(b, f))
    \/ Field(b, "targetUri").t # "string"
    \/ ~MONGO_URI_REGEX(Field(b, "targetUri").v)

\* The body fails an early validation step (3, 4 or 5).
FailsEarly(b) ==
    \/ FailsBasic(b)
    \/ /\ Absent(Field(b, "databaseName"))
       /\ LET url == URL(Field(b, "targetUri").v)
          IN ~url.ok \/ ResolvedFrom(Undefined, url, WholePath(url)) = Null

\* The invocation got past the early validation.
PassedEarly(r) ==
    /\ BodyRead(r)
    /\ ~FailsEarly(req[r].body)
    /\ pc[r] \notin {"validate", "dbname"}

\* The operation is unsupported or its required payload is missing.
PayloadMissing(l) ==
    LET op == l.operation.v[1]
    IN \/ op \notin SupportedOperations
       \/ op = "insertOne" /\ l.document = Undefined
       \/ op = "insertMany" /\ (l.documents = Undefined \/ l.documents.t # "array")
       \/ op \in {"updateOne", "updateMany"} /\ (l.query = Undefined \/ l.update = Undefined)
       \/ op \in {"deleteOne", "deleteMany"} /\ l.query = Undefined
       \/ op = "aggregate" /\ l.query.t # "array"

\* The handler answered 400 and returned without touching the driver.
Rejected400(r) ==
    /\ pc[r] = "returned"
    /\ res[r].statusCode = 400
    /\ res[r].sent = 1
    /\ drv[r] = InitDrv

CorsHeadersSet(rs) ==
    /\ {"Access-Control-Allow-Credentials", "Access-Control-Allow-Origin",
        "Access-Control-Allow-Methods", "Access-Control-Allow-Headers"}
           \subseteq DOMAIN rs.headers
    /\ rs.headers["Access-Control-Allow-Credentials"] = Bool(TRUE)
    /\ rs.headers["Access-Control-Allow-Origin"] = Str(<<"*">>)
    /\ rs.headers["Access-Control-Allow-Methods"] = Str(<<"POST, OPTIONS">>)
    /\ rs.headers["Access-Control-Allow-Headers"] = Str(<<"Content-Type">>)

Contains(s, x) == \E i \in 1..Len(s) : s[i] = x

(* ------------------------------------------------------------------ *)
(* Properties                                                         *)
(* ------------------------------------------------------------------ *)
\* C1: close() is never invoked more often than a client was created; when
\* the invocation is over, close() has been invoked exactly once if a client
\* was created (whatever the exit path: success, connect() throwing, the
\* operation throwing, a per-operation check failing, an unsupported
\* operation) and never if none was.
C1_CloseExactlyOnce ==
    \A r \in DOMAIN pc :
        /\ drv[r].clients <= 1
        /\ drv[r].closes <= drv[r].clients
        /\ Done(r) => drv[r].closes = drv[r].clients
        /\ drv[r].clients = 1 <=> Truthy(loc[r].client)

\* A per-operation check failed after connecting, and the client was closed.
C1_Witness ==
    \E r \in DOMAIN pc :
        /\ pc[r] = "returned"
        /\ res[r].statusCode = 400
        /\ loc[r].operation = Str(<<"updateOne">>)
        /\ loc[r].update = Undefined
        /\ drv[r].clients = 1
        /\ drv[r].closes = 1

\* C2: a POST request whose body fails an early validation step is answered
\* 400, and at no point of the request is a client constructed or connect()
\* called.
C2_EarlyFailureNoConnection ==
    \A r \in DOMAIN pc :
        (BodyRead(r) /\ FailsEarly(req[r].body)) =>
            /\ req[r].method = "POST"
            /\ drv[r] = InitDrv
            /\ loc[r].client = Null
            /\ pc[r] \in {"validate", "dbname", "returned"}
            /\ pc[r] = "returned" => Rejected400(r)

\* The database name could not be resolved, and the handler answered 400.
C2_Witness ==
    \E r \in DOMAIN pc :
        /\ Rejected400(r)
        /\ ~FailsBasic(req[r].body)
        /\ FailsEarly(req[r].body)

\* C5: an OPTIONS request is answered 204 with an empty body, a request that
\* is neither POST nor OPTIONS 405 with Allow: POST, OPTIONS; in both cases
\* the body is never read, the driver never touched, and the four CORS
\* headers are set when the response is sent.  Only a POST request has its
\* body read.
C5_MethodGate ==
    \A r \in DOMAIN pc :
        /\ BodyRead(r) => req[r].method = "POST"
        /\ res[r].sent > 0 => CorsHeadersSet(res[r])
        /\ (pc[r] # "idle" /\ req[r].method # "POST") =>
              /\ pc[r] \in {"cors", "options", "method", "returned"}
              /\ ~BodyRead(r)
              /\ loc[r] = InitLoc
              /\ drv[r] = InitDrv
        /\ (pc[r] = "returned" /\ req[r].method = "OPTIONS") =>
              /\ res[r].statusCode = 204
              /\ res[r].body = <<>>
              /\ res[r].sent = 1
              /\ "Allow" \notin DOMAIN res[r].headers
        /\ (pc[r] = "returned" /\ req[r].method \notin {"POST", "OPTIONS"}) =>
              /\ res[r].statusCode = 405
              /\ res[r].sent = 1
              /\ "Allow" \in DOMAIN res[r].headers
              /\ res[r].headers["Allow"] = <<"POST", "OPTIONS">>

\* A GET request was answered 405.
C5_Witness ==
    \E r \in DOMAIN pc :
        /\ pc[r] = "returned"
        /\ req[r].method = "GET"
        /\ res[r].statusCode = 405

\* C7: once client construction, connect() or the driver operation has thrown
\* and the catch block has run, the response is 500 with success false and
\* the generic message; details carries the error's message exactly when
\* NODE_ENV is not production; and the promise of the handler rejects only
\* after that response, never with the error of the try block.
C7_CaughtAs500 ==
    \A r \in DOMAIN pc :
        /\ (loc[r].error # Undefined /\ pc[r] # "catch") =>
              /\ res[r].statusCode = 500
              /\ res[r].sent = 1
              /\ res[r].body.success = Bool(FALSE)
              /\ res[r].body.error = Str(<<"Internal Server Error processing MongoDB request">>)
              /\ "details" \in DOMAIN res[r].body <=> NODE_ENV # Str(<<"production">>)
              /\ "details" \in DOMAIN res[r].body =>
                    res[r].body.details = loc[r].error.message
        /\ res[r].statusCode = 500 => loc[r].error # Undefined
        /\ pc[r] = "rejected" => (res[r].sent = 1 /\ drv[r].closes = 1)

\* connect() threw in production: 500 without details.
C7_Witness ==
    \E r \in DOMAIN pc :
        /\ Done(r)
        /\ loc[r].error = MongoNetworkError
        /\ NODE_ENV = Str(<<"production">>)
        /\ res[r].statusCode = 500
        /\ "details" \notin DOMAIN res[r].body

\* C8: an invocation never sends two responses and, when it is over, has
\* sent exactly one, also when close() threw after the response; a 200
\* {success: true, data: result} is sent only when connect() and the driver
\* operation both completed without error.
C8_ExactlyOneResponse ==
    \A r \in DOMAIN pc :
        /\ res[r].sent <= 1
        /\ Done(r) => res[r].sent = 1
        /\ res[r].sent = 0 <=> res[r].statusCode = 0
        /\ res[r].statusCode = 200 =>
              /\ drv[r].conn \in {"open", "closed"}
              /\ Len(drv[r].ops) = 1
              /\ loc[r].error = Undefined
              /\ res[r].body = [success |-> Bool(TRUE), data |-> loc[r].result]

\* close() threw after the 200 response was sent.
C8_Witness ==
    \E r \in DOMAIN pc :
        /\ pc[r] = "rejected"
        /\ res[r].statusCode = 200
        /\ res[r].sent = 1

\* C3 as claimed: a POST request that passes the early validation but whose
\* operation is unsupported or whose payload is missing is answered 400, and
\* connect() is not called at any point of the request.
C3_Original ==
    \A r \in DOMAIN pc :
        (PassedEarly(r) /\ PayloadMissing(loc[r])) =>
            /\ drv[r].connects = 0
            /\ Done(r) => res[r].statusCode = 400

\* C3 as amended: for such a request no driver operation is ever executed,
\* but connect() is called, once, before the per-operation check: the 400 is
\* sent only after connect() succeeded, the answer is 500 when client
\* construction or connect() threw, and the client that was created is
\* closed when the invocation is over.
C3_CheckAfterConnect ==
    \A r \in DOMAIN pc :
        (PassedEarly(r) /\ PayloadMissing(loc[r])) =>
            /\ drv[r].ops = <<>>
            /\ drv[r].connects <= 1
            /\ res[r].statusCode = 400 =>
                  (drv[r].connects = 1 /\ drv[r].conn \in {"open", "closed"})
            /\ Done(r) =>
                  /\ res[r].statusCode = IF drv[r].conn = "none" THEN 500 ELSE 400
                  /\ drv[r].closes = drv[r].clients
            /\ (pc[r] = "returned" /\ res[r].statusCode = 400) => drv[r].conn = "closed"

\* insertOne without document: connected, answered 400, closed.
C3_Witness ==
    \E r \in DOMAIN pc :
        /\ pc[r] = "returned"
        /\ PassedEarly(r)
        /\ loc[r].operation = Str(<<"insertOne">>)
        /\ loc[r].document = Undefined
        /\ res[r].statusCode = 400
        /\ drv[r].connects = 1
        /\ drv[r].conn = "closed"
        /\ drv[r].ops = <<>>

\* The message of an unsupported operation names it.
NamesOperation(r) ==
    loc[r].operation.v[1] \notin SupportedOperations =>
        Contains(res[r].body.error.v, loc[r].operation.v[1])

\* A payload that is present passes the per-operation check: once the
\* connection is open and the switch has run, the driver operation was
\* called, once, with the payload as it was given.
PresentPayloadExecuted(r) ==
    (~PayloadMissing(loc[r]) /\ drv[r].conn # "none" /\ pc[r] # "dispatch") =>
        /\ Len(drv[r].ops) = 1
        /\ drv[r].ops[1].op = loc[r].operation.v[1]
        /\ loc[r].operation.v[1] = "insertOne" => drv[r].ops[1].args[1] = loc[r].document
        /\ loc[r].operation.v[1] = "insertMany" => drv[r].ops[1].args[1] = loc[r].documents
        /\ loc[r].operation.v[1] \in {"updateOne", "updateMany", "deleteOne",
                                      "deleteMany", "aggregate"} =>
              drv[r].ops[1].args[1] = loc[r].query

\* C4 as claimed: whether connect() succeeds or fails, the answer is 400 (and
\* names the operation when it is unsupported) whenever the operation is
\* unsupported or its payload is missing, and no driver operation is
\* executed; present payloads, falsy or empty ones included, are executed.
C4_Original ==
    \A r \in DOMAIN pc :
        PassedEarly(r) =>
            /\ PayloadMissing(loc[r]) =>
                  /\ drv[r].ops = <<>>
                  /\ Done(r) => (res[r].statusCode = 400 /\ NamesOperation(r))
            /\ PresentPayloadExecuted(r)

\* C4 as amended: the answer is 400 (naming the unsupported operation) when
\* client construction and connect() succeeded, and 500 when either threw;
\* in both cases no driver operation is executed; present payloads, falsy or
\* empty ones included, are executed once the connection is open.
C4_PerOperationCheck ==
    \A r \in DOMAIN pc :
        PassedEarly(r) =>
            /\ PayloadMissing(loc[r]) =>
                  /\ drv[r].ops = <<>>
                  /\ Done(r) =>
                        IF drv[r].conn = "none" THEN res[r].statusCode = 500
                        ELSE res[r].statusCode = 400 /\ NamesOperation(r)
            /\ PresentPayloadExecuted(r)

\* An unsupported operation was answered 400 with its name in the message.
C4_Witness ==
    \E r \in DOMAIN pc :
        /\ Done(r)
        /\ PassedEarly(r)
        /\ loc[r].operation = Str(<<"bogus">>)
        /\ res[r].statusCode = 400
        /\ Contains(res[r].body.error.v, "bogus")

\* The resolution of the database name, with Part the part of the path that
\* names the database: databaseName when provided, targetUri then not being
\* parsed; else 400 when targetUri does not parse; else the path part when
\* non-empty; else authSource when present; else 400.  A 400 here opens no
\* connection.
DbResolution(Part(_)) ==
    \A r \in DOMAIN pc :
        (BodyRead(r) /\ ~FailsBasic(req[r].body) /\ pc[r] \notin {"validate", "dbname"}) =>
            LET dn == Field(req[r].body, "databaseName")
                url == URL(Field(req[r].body, "targetUri").v)
            IN IF ~Absent(dn) THEN loc[r].dbName = dn /\ ~Rejected400(r)
               ELSE IF ~url.ok THEN Rejected400(r)
               ELSE IF ResolvedFrom(dn, url, Part(url)) = Null THEN Rejected400(r)
               ELSE loc[r].dbName = ResolvedFrom(dn, url, Part(url)) /\ ~Rejected400(r)

\* C6 as claimed: the path part is the first path segment of targetUri.
C6_Original == DbResolution(FirstSegment)

\* C6 as amended: the path part is the whole pathname of targetUri after its
\* leading "/", every segment of it, not the first segment alone.
C6_DbNameResolution == DbResolution(WholePath)

\* The database name came from authSource, the path being empty.
C6_Witness ==
    \E r \in DOMAIN pc :
        /\ pc[r] = "create"
        /\ Field(req[r].body, "databaseName") = Undefined
        /\ WholePath(URL(loc[r].targetUri.v)) = <<>>
        /\ loc[r].dbName = Str(<<"admin">>)

\* The state of the per-request state machine an invocation is in.  While
\* the catch block has not run yet, the invocation is still in the state the
\* error was thrown in; it is Responding from the moment the response of the
\* try statement is sent until the finally block is through.
Phase(r) ==
    CASE pc[r] = "idle" -> "Idle"
      [] pc[r] \in {"cors", "options", "method", "parse", "validate", "dbname"} -> "Validating"
      [] pc[r] \in {"create", "connect", "awaitConnect"} -> "Connecting"
      [] pc[r] \in {"dispatch", "awaitOperation", "success"} -> "Dispatching"
      [] pc[r] = "catch" ->
            IF loc[r].error = MongoServerError THEN "Dispatching" ELSE "Connecting"
      [] pc[r] \in {"finally", "awaitClose"} -> "Responding"
      [] OTHER -> "Closed"

\* The place of an event in the order of a request.
Rank(e) ==
    CASE e = "client" -> 1
      [] e = "connect" -> 2
      [] e = "operation" -> 3
      [] e = "respond" -> 4
      [] e = "close" -> 5
      [] e = "closed" -> 6

\* The steps of a request happen in the order client, connect, operation,
\* respond, close, none of them twice; the client is created only after the
\* early validation passed; the driver operation runs only after connect()
\* succeeded and the per-operation check passed; the response is sent before
\* close() is called, and close() has completed when the handler returns.
InOrder ==
    \A r \in DOMAIN pc :
        /\ \A i, j \in 1..Len(log[r]) : i < j => Rank(log[r][i]) < Rank(log[r][j])
        /\ drv[r].connects <= 1
        /\ Len(drv[r].ops) <= 1
        /\ (Phase(r) \in {"Connecting", "Dispatching"} \/ Contains(log[r], "client")) =>
              (req[r].method = "POST" /\ BodyRead(r) /\ ~FailsEarly(req[r].body))
        /\ Contains(log[r], "connect") <=> drv[r].connects = 1
        /\ Contains(log[r], "operation") <=> Len(drv[r].ops) = 1
        /\ Contains(log[r], "operation") =>
              (drv[r].conn \in {"open", "closed"} /\ ~PayloadMissing(loc[r]))
        /\ Contains(log[r], "close") => Contains(log[r], "respond")
        /\ (pc[r] = "returned" /\ Contains(log[r], "client")) => Contains(log[r], "closed")
        /\ Phase(r) = "Responding" => res[r].sent = 1

\* A step changes the state of an invocation only along `moves`, and sends a
\* response only from a state of `from`.
Transitions(moves, from) ==
    \A r \in DOMAIN pc :
        /\ Phase(r)' # Phase(r) => <<Phase(r), Phase(r)'>> \in moves
        /\ res'[r].sent > res[r].sent => Phase(r) \in from

\* Idle -> Validating -> Connecting -> Dispatching -> Responding -> Closed;
\* a validation failure answers and returns in one step.
ClaimedMoves ==
    { <<"Idle", "Validating">>, <<"Validating", "Connecting">>,
      <<"Validating", "Closed">>, <<"Connecting", "Dispatching">>,
      <<"Dispatching", "Responding">>, <<"Responding", "Closed">> }

\* C9 as claimed: the steps are in order, and a response is sent only from
\* Validating or from Dispatching.
C9_Original ==
    /\ []InOrder
    /\ [][Transitions(ClaimedMoves, {"Validating", "Dispatching"})]_vars

\* C9 as amended: the steps are in order, and a response is sent only from
\* Validating, from Dispatching, or from Connecting, when client construction
\* or connect() throws (the 500 of the catch block).
C9_StateMachine ==
    /\ []InOrder
    /\ [][Transitions(ClaimedMoves \cup {<<"Connecting", "Responding">>},
                      {"Validating", "Connecting", "Dispatching"})]_vars

\* connect() threw: the 500 was sent from Connecting, and the client closed.
C9_Witness ==
    \E r \in DOMAIN pc :
        /\ pc[r] = "returned"
        /\ log[r] = <<"client", "connect", "respond", "close", "closed">>
        /\ res[r].statusCode = 500

\* A step of one invocation leaves every other invocation as it is.
Independent ==
    \A r \in DOMAIN pc : \A q \in DOMAIN pc \ {r} :
        pc'[r] # pc[r] =>
            /\ pc'[q] = pc[q]
            /\ req'[q] = req[q]
            /\ loc'[q] = loc[q]
            /\ res'[q] = res[q]
            /\ drv'[q] = drv[q]
            /\ log'[q] = log[q]

\* While connect() or the driver operation has not settled, the invocation
\* has sent no response and has not called close(), and nothing but the
\* settling of that call changes it.
Pending ==
    \A r \in DOMAIN pc :
        pc[r] \in {"awaitConnect", "awaitOperation"} =>
            /\ res[r].sent = 0
            /\ drv[r].closes = 0
            /\ pc'[r] = pc[r] =>
                  (res'[r] = res[r] /\ drv'[r] = drv[r] /\ loc'[r] = loc[r])

\* The invocation is over, has sent its response, and close() was called on
\* the client it created and has settled.
Closed(r) ==
    /\ Done(r)
    /\ res[r].sent = 1
    /\ drv[r].closes = drv[r].clients

====
